---- MODULE Spec2Model ----
(***************************************************************************)
(* Model of banana's BIDS-input resolution (banana/analysis/base.py):      *)
(* BidsMixin.get_bids_inputs and BidsMixin.__init__, and of the class      *)
(* resolver and the commands of the command line (banana/entrypoint.py):   *)
(* resolve_class, MainCmd.run, DeriveCmd.run and GenRefDataCmd.run.        *)
(*                                                                         *)
(* Python objects live in a heap keyed by object identity, so that         *)
(* copy(), attribute assignment and aliasing are what the code makes of    *)
(* them.  Spec names are sequences of '_'-separated tokens, so that        *)
(* apply_prefix (name + '_' + name) is concatenation.                      *)
(***************************************************************************)
EXTENDS Integers, Sequences, FiniteSets, TLC

VARIABLES
    cls,     \* the analysis class under test (its declared defaults)
    heap,    \* input objects: identity -> attribute record
    dicts,   \* dict objects: identity -> ordered mapping
    kept,    \* an earlier get_bids_inputs call the caller still holds
    last,    \* the latest get_bids_inputs call
    ctor,    \* the latest analysis construction
    cls0,    \* the class as it was at class definition
    decl0,   \* the declared default objects as they were at class definition
    rc,      \* a resolve_class call: its arguments, the modules, its outcome
    thr,     \* two get_bids_inputs calls in progress at once: their locals
    cmd      \* a command line: its words or options, and what came of it

vars == <<cls, heap, dicts, kept, last, ctor, cls0, decl0, rc, thr, cmd>>

----------------------------------------------------------------------------
(* Bounds *)
MaxDefaults == 2       \* declared default inputs of a simple class
MaxMultiDefaults == 2  \* declared default inputs over a composite's sub-analyses
MaxSubs == 2           \* sub-analysis specs of a composite class
MaxExplicit == 2       \* explicit inputs handed to the constructor
MaxPrefixes == 2       \* module prefixes handed to resolve_class
MaxDatasetArgs == 4    \* additional arguments of --dataset, --output_dataset
MaxProcessorArgs == 3  \* additional arguments of --processor
MaxInputs == 2         \* --input options of a derive command
MaxCache == 2          \* spec names given to --cache
MaxArgv == 2           \* words on the banana command line

None == "None"

BareNames == {<<"mag">>, <<"b", "mag">>}
SubNames == {<<"a">>, <<"a", "b">>}
ExplicitNames == {<<"mag">>, <<"a", "b", "mag">>}
DeclTasks == {None, "rest"}
TaskArgs == {None, "visual"}
RepoArgs == {None, "repo1"}
DatasetTypes == {"bids", "basic"}

SeqsUpTo(S, n) == UNION {[1..k -> S] : k \in 0..n}

RECURSIVE SumLen(_)
SumLen(ss) == IF ss = <<>> THEN 0 ELSE Len(Head(ss)) + SumLen(Tail(ss))

----------------------------------------------------------------------------
(* Objects and dicts *)

\* BidsInputs / BidsAssocInputs / FilesetFilter attributes; origin is not an
\* attribute: it records which declared object an object was copied from
Obj(kind, name, task, repo, ppn, primary) ==
    [kind |-> kind, name |-> name, spec_name |-> name, task |-> task,
     repository |-> repo, prefixed_primary_name |-> ppn, primary |-> primary,
     origin |-> 0]

\* an identity no live object has
FreshIn(used) ==
    CHOOSE i \in 1..(Cardinality(used) + 1) :
        i \notin used /\ \A j \in 1..(i - 1) : j \in used

\* allocation of a new object with the given attributes
Alloc(h, rec) == (FreshIn(DOMAIN h) :> rec) @@ h

\* copy.copy: a new object with the same attribute values (shallow)
copy(h, i) == Alloc(h, h[i])
copied(h) == FreshIn(DOMAIN h)

EmptyDict == [keys |-> <<>>, val |-> <<>>]

\* d[k] = v
DictSet(d, k, v) ==
    IF k \in DOMAIN d.val
    THEN [d EXCEPT !.val[k] = v]
    ELSE [keys |-> Append(d.keys, k), val |-> (k :> v) @@ d.val]

\* d.update(e)
RECURSIVE DictUpdateFrom(_, _, _)
DictUpdateFrom(d, e, n) ==
    IF n > Len(e.keys) THEN d
    ELSE DictUpdateFrom(DictSet(d, e.keys[n], e.val[e.keys[n]]), e, n + 1)
DictUpdate(d, e) == DictUpdateFrom(d, e, 1)

Keys(d) == DOMAIN d.val

----------------------------------------------------------------------------
(* Class declarations *)

\* a declared BidsInputs carries a repository of its own, an associated
\* input none
PlainDecls ==
    [kind : {"BidsInputs"}, name : BareNames, task : DeclTasks,
     repo : {"repo0"}, primary : {0}]
AssocDecls(n) ==
    [kind : {"BidsAssocInputs"}, name : BareNames, task : {None},
     repo : {None}, primary : 1..n]

\* a declared list; an associated input refers to a primary of the list
DeclLists(n) ==
    {s \in SeqsUpTo(PlainDecls \cup AssocDecls(n), n) :
        \A i \in DOMAIN s :
            s[i].kind = "BidsAssocInputs" =>
                /\ s[i].primary \in DOMAIN s
                /\ s[s[i].primary].kind = "BidsInputs"}

\* a class with a default_bids_inputs attribute, or without one
ClassDecls(n) ==
    [has : {TRUE}, defaults : DeclLists(n)]
        \cup {[has |-> FALSE, defaults |-> <<>>]}

\* the objects of a declared list, placed at ids off+1 .. off+Len
DeclHeap(s, off) ==
    [i \in {off + k : k \in DOMAIN s} |->
        LET e == s[i - off] IN
        [Obj(e.kind, e.name, e.task, e.repo, None,
             IF e.primary = 0 THEN 0 ELSE off + e.primary)
            EXCEPT !.origin = i]]

DeclIds(s, off) == [k \in DOMAIN s |-> off + k]

SimpleClass(c) ==
    [multi |-> FALSE, has |-> c.has,
     default_bids_inputs |-> DeclIds(c.defaults, 0), subs |-> <<>>]

\* sub-analysis specs; specs of the same analysis class share its objects
FirstOf(cs, k) == CHOOSE j \in 1..k : cs[j] = cs[k] /\ \A m \in 1..(j - 1) : cs[m] # cs[k]

RECURSIVE SubOffsetFrom(_, _, _)
SubOffsetFrom(cs, k, m) ==
    IF m >= FirstOf(cs, k) THEN 0
    ELSE (IF FirstOf(cs, m) = m THEN Len(cs[m].defaults) ELSE 0)
         + SubOffsetFrom(cs, k, m + 1)
SubOffset(cs, k) == SubOffsetFrom(cs, k, 1)

MultiClass(names, cs) ==
    [multi |-> TRUE, has |-> FALSE, default_bids_inputs |-> <<>>,
     subs |-> [k \in DOMAIN cs |->
                 [name |-> names[k],
                  has |-> cs[k].has,
                  default_bids_inputs |->
                      DeclIds(cs[k].defaults, SubOffset(cs, k))]]]

MultiHeap(cs) ==
    LET parts == [k \in DOMAIN cs |-> DeclHeap(cs[k].defaults, SubOffset(cs, k))]
    IN  [i \in UNION {DOMAIN parts[k] : k \in DOMAIN cs} |->
            LET k == CHOOSE k \in DOMAIN cs : i \in DOMAIN parts[k]
            IN  parts[k][i]]

----------------------------------------------------------------------------
(* BidsMixin.get_bids_inputs *)

\* SubCompSpec.apply_prefix: the sub-analysis name, '_', the bare name
apply_prefix(spec, name) == spec.name \o name

\* inpt = copy(inpt), for an associated input of a sub-analysis
CopyAssoc(h, i) == [heap |-> copy(h, i), id |-> copied(h)]

\* inpt.prefixed_primary_name = spec.apply_prefix(inpt.primary.name)
SetPrefixedPrimary(c, spec) ==
    [heap |-> [c.heap EXCEPT ![c.id].prefixed_primary_name =
                   apply_prefix(spec, c.heap[c.heap[c.id].primary].name)],
     id |-> c.id]

\* if isinstance(inpt, BidsAssocInputs): copy it and re-point it
PrefixAssoc(h, spec, i) ==
    IF h[i].kind = "BidsAssocInputs"
    THEN SetPrefixedPrimary(CopyAssoc(h, i), spec)
    ELSE [heap |-> h, id |-> i]

\* hasattr(analysis_class, 'default_bids_inputs')
HasDefaults(c) == c.has

\* default_bids_inputs[spec.apply_prefix(inpt.name)] = inpt
PutPrefixed(p, d, spec) ==
    [heap |-> p.heap, d |-> DictSet(d, apply_prefix(spec, p.heap[p.id].name), p.id)]

\* the composite branch: every default of every sub-analysis, prefixed
RECURSIVE MultiDefaults(_, _, _, _)
MultiDefaults(m, subs, k, j) ==
    IF k > Len(subs) THEN m
    ELSE IF ~HasDefaults(subs[k]) \/ j > Len(subs[k].default_bids_inputs)
    THEN MultiDefaults(m, subs, k + 1, 1)
    ELSE MultiDefaults(
             PutPrefixed(PrefixAssoc(m.heap, subs[k],
                                     subs[k].default_bids_inputs[j]),
                         m.d, subs[k]),
             subs, k, j + 1)

\* slip: the first default of a name is kept
RECURSIVE NameDict_FirstWins(_, _, _, _)
NameDict_FirstWins(h, d, ids, j) ==
    IF j > Len(ids) THEN d
    ELSE NameDict_FirstWins(h, IF h[ids[j]].name \in Keys(d) THEN d
                               ELSE DictSet(d, h[ids[j]].name, ids[j]),
                            ids, j + 1)

\* {i.name: i for i in cls.default_bids_inputs}
RECURSIVE NameDict(_, _, _, _)
NameDict(h, d, ids, j) ==
    IF j > Len(ids) THEN d
    ELSE NameDict(h, DictSet(d, h[ids[j]].name, ids[j]), ids, j + 1)

\* slip: the AttributeError of a missing attribute is not caught
SimpleDefaults_Uncaught(h, c) ==
    IF HasDefaults(c)
    THEN [raised |-> FALSE, d |-> NameDict(h, EmptyDict, c.default_bids_inputs, 1)]
    ELSE [raised |-> TRUE, d |-> EmptyDict]

\* the simple branch; a missing attribute raises AttributeError, caught
SimpleDefaults(h, c) ==
    IF HasDefaults(c)
    THEN [raised |-> FALSE, d |-> NameDict(h, EmptyDict, c.default_bids_inputs, 1)]
    ELSE [raised |-> FALSE, d |-> EmptyDict]

\* slips: the entry itself is bound; a copy made before is handed out again
CopyDefault_Alias(h, i) == [heap |-> h, id |-> i]
CopyDefault_Cached(h, i) ==
    IF \E j \in DOMAIN h \ {i} : h[j].name = h[i].name /\ h[j].kind = h[i].kind
                                  /\ h[j].primary = h[i].primary
    THEN [heap |-> h,
          id |-> CHOOSE j \in DOMAIN h \ {i} :
                     h[j].name = h[i].name /\ h[j].kind = h[i].kind
                     /\ h[j].primary = h[i].primary]
    ELSE [heap |-> copy(h, i), id |-> copied(h)]

\* inpt = copy(inpt), for an entry of the flattened defaults
CopyDefault(h, i) == [heap |-> copy(h, i), id |-> copied(h)]

\* slips: the task is never bound; the task overrides a set filter
BindTask_Never(h, i, task) == h
BindTask_Override(h, i, task) ==
    IF task # None THEN [h EXCEPT ![i].task = task] ELSE h

\* if inpt.task is None and task is not None: inpt.task = task
BindTask(h, i, task) ==
    IF h[i].task = None /\ task # None
    THEN [h EXCEPT ![i].task = task]
    ELSE h

\* slip: the repository is bound only where none was set
BindRepository_IfUnset(h, i, repository) ==
    IF h[i].repository = None THEN [h EXCEPT ![i].repository = repository] ELSE h

\* inpt._repository = repository
BindRepository(h, i, repository) == [h EXCEPT ![i].repository = repository]

\* the body of the loop over default_bids_inputs.items()
BindOne(c, inputs, name, task, repository) ==
    [heap |-> BindRepository(BindTask(c.heap, c.id, task), c.id, repository),
     d |-> DictSet(inputs, name, c.id)]

RECURSIVE BindAll(_, _, _, _, _)
BindAll(r, d, n, task, repository) ==
    IF n > Len(d.keys) THEN r
    ELSE BindAll(BindOne(CopyDefault(r.heap, d.val[d.keys[n]]), r.d,
                         d.keys[n], task, repository),
                 d, n + 1, task, repository)

Returned(r) == [raised |-> FALSE, heap |-> r.heap, d |-> r.d]

BindDefaults(h, s, task, repository) ==
    IF s.raised
    THEN [raised |-> TRUE, heap |-> h, d |-> EmptyDict]
    ELSE Returned(BindAll([heap |-> h, d |-> EmptyDict], s.d, 1,
                          task, repository))

BindFlattened(m, task, repository) ==
    Returned(BindAll([heap |-> m.heap, d |-> EmptyDict], m.d, 1,
                     task, repository))

get_bids_inputs(h, c, task, repository) ==
    IF c.multi
    THEN BindFlattened(MultiDefaults([heap |-> h, d |-> EmptyDict], c.subs, 1, 1),
                       task, repository)
    ELSE BindDefaults(h, SimpleDefaults(h, c), task, repository)

----------------------------------------------------------------------------
(* BidsMixin.__init__ *)

AllocDict(ds, d) == (FreshIn(DOMAIN ds) :> d) @@ ds
allocated(ds) == FreshIn(DOMAIN ds)

\* slip: every item is keyed by the first item's spec_name
RECURSIVE SpecNameDict_First(_, _, _, _)
SpecNameDict_First(h, d, ids, j) ==
    IF j > Len(ids) THEN d
    ELSE SpecNameDict_First(h, DictSet(d, h[ids[1]].spec_name, ids[j]), ids,
                            j + 1)

\* {i.spec_name: i for i in inputs}
RECURSIVE SpecNameDict(_, _, _, _)
SpecNameDict(h, d, ids, j) ==
    IF j > Len(ids) THEN d
    ELSE SpecNameDict(h, DictSet(d, h[ids[j]].spec_name, ids[j]), ids, j + 1)

\* inputs is None -> {}; a list -> a dict keyed by spec_name; a dict -> itself
NormaliseInputs(ds, h, kind, arg, items) ==
    IF kind = "None"
    THEN [dicts |-> AllocDict(ds, EmptyDict), id |-> allocated(ds)]
    ELSE IF kind # "dict"
    THEN [dicts |-> AllocDict(ds, SpecNameDict(h, EmptyDict, items, 1)),
          id |-> allocated(ds)]
    ELSE [dicts |-> ds, id |-> arg]

\* slip: the defaults are loaded for every dataset type
IsBids_Always(dataset_type) == TRUE

\* dataset.type == 'bids'
IsBids(dataset_type) == dataset_type = "bids"

\* slips: the defaults override the explicit inputs; the explicit inputs
\* replace the defaults; the defaults are merged into the caller's mapping
MergeInputs_DefaultsWin(ds, bids_inputs, inputs) ==
    [ds EXCEPT ![bids_inputs] = DictUpdate(ds[inputs], ds[bids_inputs])]
MergeInputs_Replace(ds, bids_inputs, inputs) ==
    [ds EXCEPT ![bids_inputs] = ds[inputs]]
MergeInputs_IntoExplicit(ds, bids_inputs, inputs) ==
    [ds EXCEPT ![inputs] = DictUpdate(ds[bids_inputs], ds[inputs]),
               ![bids_inputs] = DictUpdate(ds[bids_inputs], ds[inputs])]

\* bids_inputs.update(inputs)
MergeInputs(ds, bids_inputs, inputs) ==
    [ds EXCEPT ![bids_inputs] = DictUpdate(ds[bids_inputs], ds[inputs])]

\* super().__init__(name, dataset, processor, inputs, **kwargs); events are
\* the calls the constructor has made so far, in order
SuperInit(h, ds, inputs, consulted, resolved, events) ==
    [raised |-> FALSE, heap |-> h, dicts |-> ds, consulted |-> consulted,
     resolved |-> resolved, passed |-> inputs, super_calls |-> 1,
     events |-> Append(events, "super().__init__")]

\* slip: the base constructor runs on the explicit inputs, the merge follows
WithDefaults_SuperFirst(r, n) ==
    LET s == SuperInit(r.heap, AllocDict(n.dicts, r.d), n.id, 1, r.d,
                       <<"get_bids_inputs">>)
    IN  [s EXCEPT !.dicts = MergeInputs(@, allocated(n.dicts), n.id),
                  !.events = Append(@, "update")]

\* bids_inputs = self.get_bids_inputs(bids_task) and the merge
WithDefaults(r, n) ==
    IF r.raised
    THEN [raised |-> TRUE, heap |-> r.heap, dicts |-> n.dicts, consulted |-> 1,
          resolved |-> EmptyDict, passed |-> 0, super_calls |-> 0,
          events |-> <<"get_bids_inputs">>]
    ELSE SuperInit(r.heap,
                   MergeInputs(AllocDict(n.dicts, r.d), allocated(n.dicts), n.id),
                   allocated(n.dicts), 1, r.d, <<"get_bids_inputs", "update">>)

InitFrom(h, c, dataset_type, n, bids_task) ==
    IF IsBids(dataset_type)
    THEN WithDefaults(get_bids_inputs(h, c, bids_task, None), n)
    ELSE SuperInit(h, n.dicts, n.id, 0, EmptyDict, <<>>)

\* the constructor, up to and including the call of the base constructor
BidsMixinInit(h, ds, c, dataset_type, kind, arg, items, bids_task) ==
    InitFrom(h, c, dataset_type, NormaliseInputs(ds, h, kind, arg, items),
             bids_task)

----------------------------------------------------------------------------
(* resolve_class (entrypoint.py).  A string is a sequence of symbols, "."  *)
(* being one of them, so that split, join and strip do what str's do       *)

ModuleParts == {<<>>, <<"m">>}
ClassNames == {<<"C">>}
Prefixes == {<<"p">>, <<"q">>}

\* the modules an import may find: absent, importable without the class
\* attribute, importable with it
Modules == {<<"m">>, <<"p">>, <<"q">>, <<"p", ".", "m">>, <<"q", ".", "m">>}
ModuleStates == {"missing", "empty", "has"}

\* a submodule is importable only if its package is
Environments ==
    {env \in [Modules -> ModuleStates] :
        \A pre \in Prefixes :
            env[pre] = "missing" => env[pre \o <<".", "m">>] = "missing"}

\* class_str.split('.')
RECURSIVE SplitFrom(_, _, _, _)
SplitFrom(str, j, cur, acc) ==
    IF j > Len(str) THEN Append(acc, cur)
    ELSE IF str[j] = "." THEN SplitFrom(str, j + 1, <<>>, Append(acc, cur))
    ELSE SplitFrom(str, j + 1, Append(cur, str[j]), acc)

Split(str) == SplitFrom(str, 1, <<>>, <<>>)

\* '.'.join(parts)
RECURSIVE Join(_)
Join(parts) ==
    IF parts = <<>> THEN <<>>
    ELSE IF Len(parts) = 1 THEN parts[1]
    ELSE parts[1] \o <<".">> \o Join(Tail(parts))

\* mod_name.strip('.')
RECURSIVE LStrip(_)
LStrip(str) ==
    IF str # <<>> /\ Head(str) = "." THEN LStrip(Tail(str)) ELSE str

RECURSIVE RStrip(_)
RStrip(str) ==
    IF str # <<>> /\ str[Len(str)] = "."
    THEN RStrip(SubSeq(str, 1, Len(str) - 1)) ELSE str

Strip(str) == RStrip(LStrip(str))

\* Python values of the variable cls
NoneValue == [is_none |-> TRUE, module |-> <<>>, name |-> <<>>]
ClassIn(mod_name, class_name) ==
    [is_none |-> FALSE, module |-> mod_name, name |-> class_name]

\* [None] + list(prefixes)
Candidates(prefixes) == <<[none |-> TRUE, str |-> <<>>]>>
    \o [j \in DOMAIN prefixes |-> [none |-> FALSE, str |-> prefixes[j]]]

\* mod_name = prefix + '.' + module_name, or module_name for the None prefix
ModName(prefix, module_name) ==
    IF ~prefix.none THEN prefix.str \o <<".">> \o module_name
    ELSE module_name

\* import_module(mod_name) raising ModuleNotFoundError, or not
import_module(env, mod_name) ==
    IF mod_name \in DOMAIN env THEN env[mod_name] ELSE "missing"

\* slip: an importable module without the attribute ends the search
GetAttr_Stops(env, mod_name, class_name, onward) ==
    IF env[mod_name] = "has" THEN ClassIn(mod_name, class_name)
    ELSE NoneValue

\* cls = getattr(module, class_name): break, or continue on AttributeError
GetAttr(env, mod_name, class_name, onward) ==
    IF env[mod_name] = "has" THEN ClassIn(mod_name, class_name)
    ELSE onward

\* the loop over the candidate prefixes, from the j-th on
RECURSIVE Search(_, _, _, _, _)
Search(env, module_name, class_name, cands, j) ==
    IF j > Len(cands) THEN NoneValue
    ELSE IF ModName(cands[j], module_name) = <<>>
    THEN Search(env, module_name, class_name, cands, j + 1)
    ELSE IF import_module(env, Strip(ModName(cands[j], module_name)))
                = "missing"
    THEN Search(env, module_name, class_name, cands, j + 1)
    ELSE GetAttr(env, Strip(ModName(cands[j], module_name)), class_name,
                 Search(env, module_name, class_name, cands, j + 1))

\* slip: what the loop left in cls is returned as it is
Outcome_Unchecked(found, class_str) ==
    [raised |-> FALSE, exc |-> None, msg |-> <<>>, cls |-> found]

\* if cls is None: raise BananaUsageError(...); return cls
Outcome(found, class_str) ==
    IF found.is_none
    THEN [raised |-> TRUE, exc |-> "BananaUsageError", msg |-> class_str,
          cls |-> NoneValue]
    ELSE [raised |-> FALSE, exc |-> None, msg |-> <<>>, cls |-> found]

SearchParts(env, parts, prefixes) ==
    Search(env, Join(SubSeq(parts, 1, Len(parts) - 1)), parts[Len(parts)],
           Candidates(prefixes), 1)

resolve_class(env, class_str, prefixes) ==
    Outcome(SearchParts(env, Split(class_str), prefixes), class_str)

NoResolve == [valid |-> FALSE, env |-> <<>>, module_part |-> <<>>,
              class_name |-> <<>>, class_str |-> <<>>, prefixes |-> <<>>,
              done |-> FALSE, result |-> Outcome_Unchecked(NoneValue, <<>>)]

\* the class string a user writes for a class of a module
ClassStr(module_part, class_name) ==
    IF module_part = <<>> THEN class_name
    ELSE module_part \o <<".">> \o class_name

----------------------------------------------------------------------------
(* The commands (entrypoint.py).  An option is either not given or given    *)
(* with its values; what a command constructs and calls is recorded in the  *)
(* order it happens                                                         *)

NotGiven == [given |-> FALSE, v |-> <<>>]
Given(v) == [given |-> TRUE, v |-> v]

\* Python values that are a list or None
PyNone == [none |-> TRUE, v |-> <<>>]
List(v) == [none |-> FALSE, v |-> v]

\* a constructor or method the command called, with up to three arguments
Event(op, a, b, c) == [op |-> op, a |-> a, b |-> b, c |-> c]

\* the additional arguments of an option, as the user typed them
Extras(n) == [i \in 1..n |-> ToString(i)]

\* parser.add_argument(..., default=...): the value of an option in args
Parsed(opt, default) == IF opt.given THEN List(opt.v) ELSE default

\* DeriveCmd.parser().parse_args: the namespace run() reads
DeriveParse(o) ==
    [dataset_path |-> "in",
     dataset |-> Parsed(o.dataset, List(<<"bids">>)),
     output_dataset |-> Parsed(o.output_dataset, PyNone),
     processor |-> Parsed(o.processor, List(<<"multi">>)),
     input |-> o.input,
     cache |-> Parsed(o.cache, List(<<>>)),
     email |-> o.email,
     bids_task |-> o.bids_task]

NoDataset == [type |-> None, path |-> None, depth |-> None]

\* what the run has come to: args, the process environment, local variables,
\* the exception that ended it (None while it runs) and the calls so far
Started(args, environ) ==
    [args |-> args, environ |-> environ, raised |-> None,
     dataset_type |-> None, dataset |-> NoDataset,
     input_dataset |-> NoDataset, email |-> None, inputs |-> EmptyDict,
     events |-> <<>>]

Raise(st, exc) == [st EXCEPT !.raised = exc]

Called(st, e) == [st EXCEPT !.events = Append(@, e)]

\* lines 185-191
DatasetType(st) ==
    IF st.args.dataset.none
    THEN [st EXCEPT !.dataset_type =
              IF st.args.input # <<>> THEN "basic" ELSE "bids"]
    ELSE [st EXCEPT !.dataset_type = st.args.dataset.v[1]]

\* os.makedirs(dataset_path, exist_ok=True) if create_root
MakeRoot(st, dataset_path, create_root) ==
    IF create_root THEN Called(st, Event("makedirs", dataset_path, None, None))
    ELSE st

\* the 'xnat' branch of init_dataset, lines 227-246
InitXnat(st, dataset_path, dataset_args) ==
    IF Len(dataset_args) < 1 THEN Raise(st, "BananaUsageError")
    ELSE IF Len(dataset_args) > 3 THEN Raise(st, "BananaUsageError")
    ELSE [Called(st, Event("XnatRepo", dataset_args[1],
                           IF Len(dataset_args) > 2 THEN dataset_args[2]
                           ELSE None,
                           IF Len(dataset_args) > 3 THEN dataset_args[3]
                           ELSE None))
             EXCEPT !.dataset = [type |-> "xnat", path |-> dataset_path,
                                 depth |-> None]]

\* the last branch of init_dataset, lines 247-251: the message is formatted
\* with dataset_args[0]
InitUnrecognised(st, dataset_args) ==
    IF Len(dataset_args) = 0 THEN Raise(st, "IndexError")
    ELSE Raise(st, "BananaUsageError")

\* init_dataset, lines 211-252; the dataset it returns is left in st.dataset
init_dataset(st, dataset_path, dataset_type, dataset_args, create_root) ==
    IF dataset_type = "bids"
    THEN [Called(MakeRoot(st, dataset_path, create_root),
                 Event("BidsRepo", dataset_path, None, None))
             EXCEPT !.dataset = [type |-> "bids", path |-> dataset_path,
                                 depth |-> None]]
    ELSE IF dataset_type = "basic"
    THEN IF Len(dataset_args) # 1 THEN Raise(st, "BananaUsageError")
         ELSE [Called(MakeRoot(st, dataset_path, create_root),
                      Event("Dataset", dataset_path, dataset_args[1], None))
                  EXCEPT !.dataset = [type |-> "basic", path |-> dataset_path,
                                      depth |-> dataset_args[1]]]
    ELSE IF dataset_type = "xnat"
    THEN InitXnat(st, dataset_path, dataset_args)
    ELSE InitUnrecognised(st, dataset_args)

\* lines 254-255; args.dataset[1:] of None would be a TypeError
InputDataset(st) ==
    IF st.args.dataset.none THEN Raise(st, "TypeError")
    ELSE init_dataset(st, st.args.dataset_path, st.dataset_type,
                      Tail(st.args.dataset.v), FALSE)

\* lines 257-278
OutputDataset(st) ==
    IF st.raised # None THEN st
    ELSE IF st.args.output_dataset.none
    THEN st
    ELSE IF Len(st.args.output_dataset.v) = 1
    THEN init_dataset([st EXCEPT !.input_dataset = st.dataset,
                                 !.dataset_type = "basic"],
                      st.args.output_dataset.v[1], "basic",
                      <<st.dataset.depth>>, TRUE)
    ELSE init_dataset([st EXCEPT !.input_dataset = st.dataset,
                                 !.dataset_type = st.args.output_dataset.v[1]],
                      st.args.output_dataset.v[2],
                      st.args.output_dataset.v[1],
                      SubSeq(st.args.output_dataset.v, 3,
                             Len(st.args.output_dataset.v)), TRUE)

\* slip: the environment variable is preferred to --email
Email_EnvFirst(st) ==
    IF st.raised # None THEN st
    ELSE IF st.environ.EMAIL # None THEN [st EXCEPT !.email = st.environ.EMAIL]
    ELSE [st EXCEPT !.email = st.args.email]

\* lines 280-286: --email, else os.environ['EMAIL'], else None
Email(st) ==
    IF st.raised # None THEN st
    ELSE IF st.args.email # None THEN [st EXCEPT !.email = st.args.email]
    ELSE [st EXCEPT !.email = st.environ.EMAIL]

\* the 'multi' branch, lines 292-303 and 537-548: the second test is only
\* reached when the first has failed
MultiProcessor(st, processor) ==
    IF Len(processor) > 1
    THEN Called(st, Event("MultiProc", processor[2], None, None))
    ELSE IF Len(processor) > 2 THEN Raise(st, "BananaUsageError")
    ELSE Called(st, Event("MultiProc", "cpu_count()", None, None))

\* the 'slurm' branch, lines 304-320
SlurmProcessor(st, processor) ==
    IF st.email = None THEN Raise(st, "BananaUsageError")
    ELSE IF Len(processor) > 3 THEN Raise(st, "BananaUsageError")
    ELSE Called(st, Event("SlurmProc",
                          IF Len(processor) >= 2 THEN processor[2] ELSE None,
                          IF Len(processor) >= 3 THEN processor[3] ELSE None,
                          st.email))

\* lines 290-324
Processor(st) ==
    IF st.raised # None THEN st
    ELSE IF st.args.processor.v[1] = "single"
    THEN Called(st, Event("SingleProc", None, None, None))
    ELSE IF st.args.processor.v[1] = "multi"
    THEN MultiProcessor(st, st.args.processor.v)
    ELSE IF st.args.processor.v[1] = "slurm"
    THEN SlurmProcessor(st, st.args.processor.v)
    ELSE Raise(st, "BananaUsageError")

\* def get_bids_inputs(cls, task=None, repository=None)
GetBidsInputsParams == {"task", "repository"}

\* a call with keyword arguments: a keyword the signature lacks is a
\* TypeError
Accepts(params, keywords) == keywords \subseteq params

\* the keys of the resolved defaults, each an input of the BIDS kind
RECURSIVE KindDict(_, _, _, _)
KindDict(d, names, kind, n) ==
    IF n > Len(names) THEN d
    ELSE KindDict(DictSet(d, names[n], kind), names, kind, n + 1)

\* lines 336-340
DefaultInputs(st, h, c) ==
    IF st.raised # None THEN st
    ELSE IF st.input_dataset # NoDataset /\ st.input_dataset.type = "bids"
    THEN IF Accepts(GetBidsInputsParams, {"dataset"})
         THEN [Called(st, Event("get_bids_inputs", st.args.bids_task,
                                None, None))
                  EXCEPT !.inputs =
                      KindDict(EmptyDict,
                               get_bids_inputs(h, c, st.args.bids_task,
                                               None).d.keys,
                               "BidsInputs", 1)]
         ELSE Raise(st, "TypeError")
    ELSE [st EXCEPT !.inputs = EmptyDict]

\* analysis_class.data_spec(name).is_fileset, for the specs of the class
FilesetSpecs == {<<"mag">>, <<"b", "mag">>}
FieldSpecs == {<<"age">>}

\* lines 341-348
RECURSIVE InputFilters(_, _)
InputFilters(st, n) ==
    IF st.raised # None \/ n > Len(st.args.input) THEN st
    ELSE InputFilters(
             [st EXCEPT !.inputs =
                  DictSet(@, st.args.input[n],
                          IF st.args.input[n] \in FilesetSpecs
                          THEN "FilesetFilter" ELSE "FieldFilter")],
             n + 1)

\* lines 350-361
Analysis(st) ==
    IF st.raised # None THEN st
    ELSE Called(st, Event("analysis_class", st.dataset.type,
                          st.args.bids_task, None))

\* analysis.bound_spec(spec_name): the input the spec is bound to, else the
\* spec itself
bound_spec(st, spec_name) ==
    IF spec_name \in Keys(st.inputs) THEN st.inputs.val[spec_name]
    ELSE "spec"

\* slip: what is not an input fileset is skipped
CacheOne_Skipping(st, spec_name) ==
    IF bound_spec(st, spec_name) # "FilesetFilter" THEN st
    ELSE Called(st, Event("cache", spec_name, None, None))

\* lines 364-368
CacheOne(st, spec_name) ==
    IF bound_spec(st, spec_name) # "FilesetFilter"
    THEN Raise(st, "BananaUsageError")
    ELSE Called(st, Event("cache", spec_name, None, None))

\* lines 363-368
RECURSIVE Cache(_, _)
Cache(st, n) ==
    IF st.raised # None \/ n > Len(st.args.cache.v) THEN st
    ELSE Cache(CacheOne(st, st.args.cache.v[n]), n + 1)

\* line 371
Data(st) ==
    IF st.raised # None THEN st
    ELSE Called(st, Event("data", None, None, None))

\* DeriveCmd.run, from line 185 on
DeriveCmdRun(args, environ, h, c) ==
    Data(Cache(Analysis(InputFilters(DefaultInputs(
        Processor(Email(OutputDataset(InputDataset(DatasetType(
            Started(args, environ)))))), h, c), 1)), 1))

\* the attributes GenRefDataCmd.parser() gives the namespace
GenRefDataAttrs == {"test_class", "specs", "processor", "environment",
                    "loggers", "reprocess", "scratch", "test_root", "quiet"}

GenRefDataParse(o) ==
    [quiet |-> o.quiet, processor |-> Parsed(o.processor, List(<<"multi">>))]

\* lines 520-521: set_loggers(args.logger) unless --quiet
SetLoggers(st, attrs) ==
    IF st.args.quiet THEN st
    ELSE IF "logger" \in attrs THEN st
    ELSE Raise(st, "AttributeError")

\* lines 535-552
RefProcessor(st) ==
    IF st.raised # None THEN st
    ELSE IF st.args.processor.v[1] = "single"
    THEN Called(st, Event("SingleProc", None, None, None))
    ELSE IF st.args.processor.v[1] = "multi"
    THEN MultiProcessor(st, st.args.processor.v)
    ELSE Raise(st, "BananaUsageError")

\* line 561: op.join(args.test_root, parts[:-2]) joins a str and a list
TestPath(st) ==
    IF st.raised # None THEN st ELSE Raise(st, "TypeError")

\* GenRefDataCmd.run
GenRefDataCmdRun(args, environ) ==
    TestPath(RefProcessor(SetLoggers(Started(args, environ),
                                     GenRefDataAttrs)))

\* MainCmd.commands
Commands == {<<"avail">>, <<"menu">>, <<"derive">>, <<"test-gen">>,
             <<"gen-ref-data">>, <<"help">>}

\* a command-line word that argparse takes for an option
IsOption(word) == Len(word) > 1 /\ word[1] = "-"

HelpOptions == {<<"-", "h">>, <<"-", "-", "help">>}
VersionOptions == {<<"-", "v">>, <<"-", "-", "version">>}

\* what MainCmd.run has come to: the exit status once it has exited, the
\* command parsed, and what it printed and called
MainStarted(argv, environ) ==
    [argv |-> argv, environ |-> environ, exit |-> None, command |-> <<>>,
     events |-> <<>>]

Exit(st, status) ==
    [Called(st, Event("exit", status, None, None)) EXCEPT !.exit = status]

\* parser.parse_args(argv[:1]): one positional, --version, and -h
MainParse(st, words) ==
    IF words = <<>> THEN Exit(Called(st, Event("error", None, None, None)), "2")
    ELSE IF words[1] \in HelpOptions
    THEN Exit(Called(st, Event("print_help", None, None, None)), "0")
    ELSE IF words[1] \in VersionOptions
    THEN Exit(Called(st, Event("print_version", None, None, None)), "0")
    ELSE IF IsOption(words[1])
    THEN Exit(Called(st, Event("error", None, None, None)), "2")
    ELSE [st EXCEPT !.command = words[1]]

\* slip: the command exits with status 0
Unrecognised_Succeeds(st) ==
    Exit(Called(Called(st, Event("print", "Unrecognised command", None, None)),
                Event("print_help", None, None, None)), "0")

\* lines 713-716
Unrecognised(st) ==
    Exit(Called(Called(st, Event("print", "Unrecognised command", None, None)),
                Event("print_help", None, None, None)), "1")

\* lines 720-721: the sub-command's parser may refuse its arguments
SubCommand(st) ==
    IF st.environ.sub_ok
    THEN Called(Called(st, Event("cmd_cls.parse_args", None, None, None)),
                Event("cmd_cls.run", None, None, None))
    ELSE Exit(Called(Called(st, Event("cmd_cls.parse_args", None, None, None)),
                     Event("error", None, None, None)), "2")

\* lines 711-721
Dispatch(st) ==
    IF st.exit # None THEN st
    ELSE IF st.command \notin Commands
    THEN Unrecognised(st)
    ELSE IF st.command = <<"help">> /\ Len(st.argv) = 1
    THEN Called(st, Event("print_help", None, None, None))
    ELSE SubCommand(st)

\* argv[:1]
FirstWords(argv) == IF argv = <<>> THEN <<>> ELSE <<argv[1]>>

\* MainCmd.run
MainCmdRun(argv, environ) ==
    Dispatch(MainParse(MainStarted(argv, environ), FirstWords(argv)))

\* a command line and what came of it
NoCmd == [kind |-> None, opts |-> <<>>, argv |-> <<>>, environ |-> <<>>,
          done |-> FALSE, out |-> <<>>]

----------------------------------------------------------------------------
(* What a caller holds; what nobody holds is reclaimed, and identities are  *)
(* renumbered in the order the caller reaches them                          *)

NoCall == [valid |-> FALSE, task |-> None, repository |-> None,
           raised |-> FALSE, ret |-> 0, snap |-> <<>>]

NoCtor == [valid |-> FALSE, dataset_type |-> None, bids_task |-> None,
           kind |-> None, arg |-> 0, items |-> <<>>, arg_snap |-> EmptyDict,
           obj_snap |-> <<>>, raised |-> FALSE, consulted |-> 0,
           resolved |-> EmptyDict, passed |-> 0, super_calls |-> 0,
           events |-> <<>>]

Range(f) == {f[x] : x \in DOMAIN f}

DictVals(d) == [j \in DOMAIN d.keys |-> d.val[d.keys[j]]]

HeldDict(ds, i) == IF i = 0 THEN <<>> ELSE DictVals(ds[i])

RECURSIVE Distinct(_, _, _, _)
Distinct(s, acc, j, skip) ==
    IF j > Len(s) THEN acc
    ELSE Distinct(s, IF s[j] \in skip \/ s[j] \in Range(acc)
                     THEN acc ELSE Append(acc, s[j]), j + 1, skip)

WithPrimaries(h, s) == s \o [j \in DOMAIN s |-> h[s[j]].primary]

HeldObjs(h, ds, k, l, c) ==
    Distinct(WithPrimaries(h, HeldDict(ds, k.ret) \o HeldDict(ds, l.ret)
                              \o c.items \o HeldDict(ds, c.passed)
                              \o DictVals(c.resolved)),
             <<>>, 1, DOMAIN decl0 \cup {0})

HeldDicts(k, l, c) == Distinct(<<k.ret, l.ret, c.arg, c.passed>>, <<>>, 1, {0})

Position(s, x) == CHOOSE j \in DOMAIN s : s[j] = x

NewId(ord, i) ==
    IF i = 0 \/ i \in DOMAIN decl0 THEN i
    ELSE Cardinality(DOMAIN decl0) + Position(ord, i)

NewDictId(dord, i) == IF i = 0 THEN 0 ELSE Position(dord, i)

RenumberDict(d, ord) == [keys |-> d.keys, val |-> [x \in DOMAIN d.val |-> NewId(ord, d.val[x])]]

RenumberHeap(h, ord) ==
    [n \in DOMAIN decl0 \cup {NewId(ord, ord[j]) : j \in DOMAIN ord} |->
        LET old == IF n \in DOMAIN decl0 THEN n
                   ELSE ord[n - Cardinality(DOMAIN decl0)]
        IN  [h[old] EXCEPT !.primary = NewId(ord, @)]]

RenumberDicts(ds, ord, dord) ==
    [n \in 1..Len(dord) |-> RenumberDict(ds[dord[n]], ord)]

RenumberCall(k, dord) == [k EXCEPT !.ret = NewDictId(dord, @)]

RenumberCtor(c, ord, dord) ==
    [c EXCEPT !.arg = NewDictId(dord, @),
              !.passed = NewDictId(dord, @),
              !.items = [j \in DOMAIN @ |-> NewId(ord, @[j])],
              !.arg_snap = RenumberDict(@, ord),
              !.resolved = RenumberDict(@, ord)]

Renumbered(h, ds, k, l, c, ord, dord) ==
    [heap |-> RenumberHeap(h, ord), dicts |-> RenumberDicts(ds, ord, dord),
     kept |-> RenumberCall(k, dord), last |-> RenumberCall(l, dord),
     ctor |-> RenumberCtor(c, ord, dord)]

Held(h, ds, k, l, c) ==
    Renumbered(h, ds, k, l, c, HeldObjs(h, ds, k, l, c), HeldDicts(k, l, c))

Snapshot(h, d) == [k \in Keys(d) |-> h[d.val[k]]]

----------------------------------------------------------------------------
(* Explicit inputs a caller creates *)

Injective(s) == \A i, j \in DOMAIN s : s[i] = s[j] => i = j

ExplicitForms ==
    {[kind |-> "None", names |-> <<>>]}
    \cup [kind : {"list"}, names : SeqsUpTo(ExplicitNames, MaxExplicit)]
    \cup [kind : {"dict"},
          names : {s \in SeqsUpTo(ExplicitNames, MaxExplicit) : Injective(s)}]

RECURSIVE AllocFilters(_, _, _, _)
AllocFilters(h, names, ids, j) ==
    IF j > Len(names) THEN [heap |-> h, ids |-> ids]
    ELSE AllocFilters(Alloc(h, Obj("FilesetFilter", names[j], None, None, None, 0)),
                      names, Append(ids, FreshIn(DOMAIN h)), j + 1)

ArgDict(names, ids) ==
    [keys |-> names,
     val |-> [n \in Range(names) |-> ids[Position(names, n)]]]

----------------------------------------------------------------------------
(* Actions *)

CallRecord(r, task, repository, ret) ==
    [valid |-> TRUE, task |-> task, repository |-> repository,
     raised |-> r.raised, ret |-> IF r.raised THEN 0 ELSE ret,
     snap |-> IF r.raised THEN <<>> ELSE Snapshot(r.heap, r.d)]

\* a caller invokes the classmethod and holds on to the result; it either
\* also keeps the result of the call before, or the one it kept already
GetBidsInputs(task, repository, keep) ==
    \E r \in {get_bids_inputs(heap, cls, task, repository)} :
    \E s \in {Held(r.heap, IF r.raised THEN dicts ELSE AllocDict(dicts, r.d),
                   IF keep THEN last ELSE kept,
                   CallRecord(r, task, repository, allocated(dicts)),
                   NoCtor)} :
        /\ heap' = s.heap
        /\ dicts' = s.dicts
        /\ kept' = s.kept
        /\ last' = s.last
        /\ ctor' = s.ctor
        /\ UNCHANGED <<cls, cls0, decl0, rc, thr, cmd>>

CtorRecord(r, f, dataset_type, form, bids_task, arg) ==
    [valid |-> TRUE, dataset_type |-> dataset_type, bids_task |-> bids_task,
     kind |-> form.kind, arg |-> arg, items |-> f.ids,
     arg_snap |-> IF form.kind = "dict" THEN ArgDict(form.names, f.ids)
                  ELSE EmptyDict,
     obj_snap |-> [j \in DOMAIN f.ids |-> f.heap[f.ids[j]]],
     raised |-> r.raised, consulted |-> r.consulted, resolved |-> r.resolved,
     passed |-> r.passed, super_calls |-> r.super_calls, events |-> r.events]

\* a caller that holds no analysis creates explicit inputs and constructs an
\* analysis with them
Construct(dataset_type, form, bids_task) ==
    /\ ~ctor.valid
    /\ \E f \in {AllocFilters(heap, form.names, <<>>, 1)} :
       \E arg \in {IF form.kind = "dict" THEN allocated(dicts) ELSE 0} :
       \E r \in {BidsMixinInit(f.heap,
                               IF form.kind = "dict"
                               THEN AllocDict(dicts, ArgDict(form.names, f.ids))
                               ELSE dicts,
                               cls, dataset_type, form.kind, arg, f.ids,
                               bids_task)} :
       \E s \in {Held(r.heap, r.dicts, NoCall, NoCall,
                      CtorRecord(r, f, dataset_type, form, bids_task, arg))} :
           /\ heap' = s.heap
           /\ dicts' = s.dicts
           /\ kept' = s.kept
           /\ last' = s.last
           /\ ctor' = s.ctor
           /\ UNCHANGED <<cls, cls0, decl0, rc, thr, cmd>>

\* the caller lets go of the analysis it constructed and of its inputs
Release ==
    /\ ctor.valid
    /\ \E s \in {Held(heap, dicts, kept, last, NoCtor)} :
           /\ heap' = s.heap
           /\ dicts' = s.dicts
           /\ kept' = s.kept
           /\ last' = s.last
           /\ ctor' = s.ctor
           /\ UNCHANGED <<cls, cls0, decl0, rc, thr, cmd>>

\* the locals of a get_bids_inputs call in progress: its arguments, where it
\* is (pc), the sub-analysis and default the composite loop is at (k, j),
\* default_bids_inputs (d), the entry the second loop is at (n), inpt (cur)
\* and inputs
Locals(task, repository) ==
    [pc |-> "defaults", task |-> task, repository |-> repository,
     k |-> 1, j |-> 1, d |-> EmptyDict, n |-> 1, cur |-> 0,
     inputs |-> EmptyDict, raised |-> FALSE]

NoThreads == <<>>

\* the objects the calls in progress refer to, in the order they reach them
LocalObjs(h, t) ==
    LET of(L) == DictVals(L.d) \o (IF L.cur = 0 THEN <<>> ELSE <<L.cur>>)
                    \o DictVals(L.inputs)
    IN  Distinct(WithPrimaries(h, of(t[1]) \o of(t[2])), <<>>, 1,
                 DOMAIN decl0 \cup {0})

RenumberLocals(L, ord) ==
    [L EXCEPT !.d = RenumberDict(@, ord), !.cur = NewId(ord, @),
              !.inputs = RenumberDict(@, ord)]

\* thread i goes on by one statement, which leaves heap h and locals L
Stepped(i, h, L) ==
    \E t \in {[thr EXCEPT ![i] = L]} :
    \E ord \in {LocalObjs(h, t)} :
        /\ heap' = RenumberHeap(h, ord)
        /\ thr' = [x \in DOMAIN t |-> RenumberLocals(t[x], ord)]
        /\ UNCHANGED <<cls, dicts, kept, last, ctor, cls0, decl0, rc, cmd>>

\* lines 36-52: the simple branch's comprehension, or one round of the
\* composite branch's loops
Defaults(i) ==
    /\ thr # NoThreads /\ thr[i].pc = "defaults"
    /\ \E L \in {thr[i]} :
        IF ~cls.multi
        THEN \E s \in {SimpleDefaults(heap, cls)} :
                 Stepped(i, heap,
                         [L EXCEPT !.d = s.d, !.raised = s.raised,
                                   !.pc = IF s.raised THEN "done" ELSE "loop"])
        ELSE IF L.k > Len(cls.subs)
        THEN Stepped(i, heap, [L EXCEPT !.pc = "loop"])
        ELSE IF ~HasDefaults(cls.subs[L.k])
                \/ L.j > Len(cls.subs[L.k].default_bids_inputs)
        THEN Stepped(i, heap, [L EXCEPT !.k = @ + 1, !.j = 1])
        ELSE \E m \in {PutPrefixed(
                          PrefixAssoc(heap, cls.subs[L.k],
                                      cls.subs[L.k].default_bids_inputs[L.j]),
                          L.d, cls.subs[L.k])} :
                 Stepped(i, m.heap, [L EXCEPT !.d = m.d, !.j = @ + 1])

\* line 55: inpt = copy(inpt)
Copy(i) ==
    /\ thr # NoThreads /\ thr[i].pc = "loop"
    /\ thr[i].n <= Len(thr[i].d.keys)
    /\ \E L \in {thr[i]} :
       \E c \in {CopyDefault(heap, L.d.val[L.d.keys[L.n]])} :
           Stepped(i, c.heap, [L EXCEPT !.cur = c.id, !.pc = "task"])

\* lines 56-57
Task(i) ==
    /\ thr # NoThreads /\ thr[i].pc = "task"
    /\ \E L \in {thr[i]} :
           Stepped(i, BindTask(heap, L.cur, L.task), [L EXCEPT !.pc = "repo"])

\* lines 58-59; the assignment to inputs touches the call's own dict only
Repository(i) ==
    /\ thr # NoThreads /\ thr[i].pc = "repo"
    /\ \E L \in {thr[i]} :
           Stepped(i, BindRepository(heap, L.cur, L.repository),
                   [L EXCEPT !.inputs = DictSet(@, L.d.keys[L.n], L.cur),
                             !.cur = 0, !.n = @ + 1, !.pc = "loop"])

\* line 60: return inputs
Return(i) ==
    /\ thr # NoThreads /\ thr[i].pc = "loop"
    /\ thr[i].n > Len(thr[i].d.keys)
    /\ \E L \in {thr[i]} :
           Stepped(i, heap, [L EXCEPT !.d = EmptyDict, !.pc = "done"])

\* a command resolves the class string it was given
ResolveClass ==
    /\ rc.valid /\ ~rc.done
    /\ rc' = [rc EXCEPT !.done = TRUE,
                        !.result = resolve_class(rc.env, rc.class_str,
                                                 rc.prefixes)]
    /\ UNCHANGED <<cls, heap, dicts, kept, last, ctor, cls0, decl0, thr, cmd>>

\* the command is run again
ResolveAgain ==
    /\ rc.valid /\ rc.done
    /\ rc' = [rc EXCEPT !.done = FALSE, !.result = NoResolve.result]
    /\ UNCHANGED <<cls, heap, dicts, kept, last, ctor, cls0, decl0, thr, cmd>>

\* banana <words>
Main ==
    /\ cmd.kind = "main" /\ ~cmd.done
    /\ cmd' = [cmd EXCEPT !.done = TRUE,
                          !.out = MainCmdRun(cmd.argv, cmd.environ)]
    /\ UNCHANGED <<cls, heap, dicts, kept, last, ctor, cls0, decl0, rc, thr>>

\* banana derive <options>
Derive ==
    /\ cmd.kind = "derive" /\ ~cmd.done
    /\ cmd' = [cmd EXCEPT !.done = TRUE,
                          !.out = DeriveCmdRun(DeriveParse(cmd.opts),
                                               cmd.environ, heap, cls)]
    /\ UNCHANGED <<cls, heap, dicts, kept, last, ctor, cls0, decl0, rc, thr>>

\* banana gen-ref-data <options>
GenRefData ==
    /\ cmd.kind = "gen-ref-data" /\ ~cmd.done
    /\ cmd' = [cmd EXCEPT !.done = TRUE,
                          !.out = GenRefDataCmdRun(GenRefDataParse(cmd.opts),
                                                   cmd.environ)]
    /\ UNCHANGED <<cls, heap, dicts, kept, last, ctor, cls0, decl0, rc, thr>>

----------------------------------------------------------------------------
(* Specifications *)

InitSimple(n) ==
    \E c \in ClassDecls(n) :
        /\ cls = SimpleClass(c)
        /\ heap = DeclHeap(c.defaults, 0)

InitMulti(n) ==
    \E m \in 1..MaxSubs :
        \E names \in {s \in [1..m -> SubNames] : Injective(s)} :
            \E cs \in [1..m -> ClassDecls(n)] :
                /\ SumLen([k \in 1..m |-> cs[k].defaults]) <= n
                /\ cls = MultiClass(names, cs)
                /\ heap = MultiHeap(cs)

InitCaller ==
    /\ cls0 = cls
    /\ decl0 = heap
    /\ dicts = <<>>
    /\ kept = NoCall
    /\ last = NoCall
    /\ ctor = NoCtor

Init ==
    /\ InitSimple(MaxDefaults) \/ InitMulti(MaxMultiDefaults)
    /\ InitCaller
    /\ rc = NoResolve
    /\ thr = NoThreads
    /\ cmd = NoCmd

InitResolve ==
    /\ cls = SimpleClass([has |-> FALSE, defaults |-> <<>>])
    /\ heap = <<>>
    /\ InitCaller
    /\ thr = NoThreads
    /\ cmd = NoCmd
    /\ \E env \in Environments, module_part \in ModuleParts,
          class_name \in ClassNames,
          prefixes \in SeqsUpTo(Prefixes, MaxPrefixes) :
           rc = [NoResolve EXCEPT !.valid = TRUE, !.env = env,
                                  !.module_part = module_part,
                                  !.class_name = class_name,
                                  !.class_str = ClassStr(module_part,
                                                         class_name),
                                  !.prefixes = prefixes]

InitThreads ==
    /\ InitSimple(MaxDefaults) \/ InitMulti(MaxMultiDefaults)
    /\ InitCaller
    /\ rc = NoResolve
    /\ cmd = NoCmd
    /\ \E ta, tb \in TaskArgs, ra, rb \in RepoArgs :
           /\ ta = None /\ ta # tb /\ ra # rb
           /\ thr = <<Locals(ta, ra), Locals(tb, rb)>>

\* two threads inside get_bids_inputs, switched between statements
NextThreads ==
    \E i \in 1..2 :
        \/ Defaults(i)
        \/ Copy(i)
        \/ Task(i)
        \/ Repository(i)
        \/ Return(i)

SpecThreads == InitThreads /\ [][NextThreads]_vars

\* the options a user may give
DatasetTypeArgs == {"bids", "basic", "xnat", "nifti"}
ProcessorTypeArgs == {"single", "multi", "slurm", "sge"}
InputNames == {<<"mag">>, <<"b", "mag">>, <<"age">>}
CacheNames == {<<"mag">>, <<"b", "mag">>, <<"age">>, <<"out">>}
EmailArgs == {None, "me@cli"}
EmailEnvs == {None, "me@env"}
ArgvWords == {<<"derive">>, <<"help">>, <<"bogus">>, <<"-", "h">>,
              <<"-", "-", "version">>, <<"-", "-", "bogus">>}

DatasetOpts ==
    {NotGiven} \cup {Given(<<t>> \o Extras(n)) :
                         t \in DatasetTypeArgs, n \in 0..MaxDatasetArgs}

OutputOpts ==
    {NotGiven} \cup {Given(<<t>>) : t \in DatasetTypeArgs \cup {"out"}}
        \cup {Given(<<t, "out">> \o Extras(n)) :
                  t \in DatasetTypeArgs, n \in 0..MaxDatasetArgs}

ProcessorOpts ==
    {NotGiven} \cup {Given(<<t>> \o Extras(n)) :
                         t \in ProcessorTypeArgs, n \in 0..MaxProcessorArgs}

CacheOpts ==
    {NotGiven} \cup {Given(s) : s \in SeqsUpTo(CacheNames, MaxCache) \ {<<>>}}

DefaultOpts ==
    [dataset |-> NotGiven, output_dataset |-> NotGiven,
     processor |-> NotGiven, input |-> <<>>, cache |-> NotGiven,
     email |-> None, bids_task |-> None]

\* derive command lines: those about the datasets, those about the
\* processor, and those about inputs and caching
DeriveLines ==
    {[DefaultOpts EXCEPT !.dataset = d, !.output_dataset = o, !.input = i,
                         !.bids_task = t] :
        d \in DatasetOpts, o \in OutputOpts,
        i \in SeqsUpTo(InputNames, 1), t \in TaskArgs}
    \cup {[DefaultOpts EXCEPT !.processor = p, !.email = e,
                              !.output_dataset = o] :
        p \in ProcessorOpts, e \in EmailArgs,
        o \in {NotGiven, Given(<<"bids", "out">>)}}
    \cup {[DefaultOpts EXCEPT !.input = i, !.cache = c] :
        i \in SeqsUpTo(InputNames, MaxInputs), c \in CacheOpts}

InitCmd ==
    /\ rc = NoResolve
    /\ thr = NoThreads
    /\ \/ /\ \E c \in ClassDecls(1) :
                 /\ cls = SimpleClass(c)
                 /\ heap = DeclHeap(c.defaults, 0)
          /\ \E o \in DeriveLines, e \in EmailEnvs :
                 cmd = [NoCmd EXCEPT !.kind = "derive", !.opts = o,
                                     !.environ = [EMAIL |-> e]]
       \/ /\ cls = SimpleClass([has |-> FALSE, defaults |-> <<>>])
          /\ heap = <<>>
          /\ \/ \E argv \in SeqsUpTo(ArgvWords, MaxArgv), ok \in BOOLEAN :
                    cmd = [NoCmd EXCEPT !.kind = "main", !.argv = argv,
                                        !.environ = [sub_ok |-> ok]]
             \/ \E p \in ProcessorOpts, q \in BOOLEAN :
                    cmd = [NoCmd EXCEPT !.kind = "gen-ref-data",
                                        !.opts = [quiet |-> q, processor |-> p],
                                        !.environ = [EMAIL |-> None]]
    /\ InitCaller

\* command lines run
NextCmd == Main \/ Derive \/ GenRefData

SpecCmd == InitCmd /\ [][NextCmd]_vars

\* callers of the class resolver
NextResolve == ResolveClass \/ ResolveAgain

SpecResolve == InitResolve /\ [][NextResolve]_vars

\* callers of the resolver
Next ==
    \E task \in TaskArgs, repository \in RepoArgs, keep \in BOOLEAN :
        GetBidsInputs(task, repository, keep)

Spec == Init /\ [][Next]_vars

\* callers of the constructor
NextInit ==
    \/ \E dataset_type \in DatasetTypes, form \in ExplicitForms,
          bids_task \in TaskArgs :
           Construct(dataset_type, form, bids_task)
    \/ Release

SpecInit == Init /\ [][NextInit]_vars

----------------------------------------------------------------------------
(* Properties of the resolver *)

Entries(i) == Range(dicts[i].val)

\* the declared defaults of the class, each with the key it is entered under
DeclaredAt ==
    IF cls0.multi
    THEN UNION {{<<apply_prefix(cls0.subs[k], decl0[i].name), i>> :
                    i \in Range(cls0.subs[k].default_bids_inputs)} :
                k \in {k \in DOMAIN cls0.subs : cls0.subs[k].has}}
    ELSE {<<decl0[i].name, i>> : i \in Range(cls0.default_bids_inputs)}

DefaultsAt(key) == {p[2] : p \in {q \in DeclaredAt : q[1] = key}}

Returned1(call) == call.valid /\ ~call.raised

\* C1: after any sequence of get_bids_inputs calls every class-declared
\* default still has the attributes it was declared with, and the class-level
\* default lists hold the same objects in the same order
DefaultsNeverMutated ==
    /\ cls = cls0
    /\ \A i \in DOMAIN decl0 : i \in DOMAIN heap /\ heap[i] = decl0[i]

DefaultsNeverMutatedWitness ==
    /\ Returned1(kept) /\ Returned1(last)
    /\ kept.task # last.task /\ last.task # None
    /\ kept.repository # last.repository
    /\ \E i \in DOMAIN decl0 : decl0[i].task = None
    /\ \E i \in DOMAIN decl0 : decl0[i].kind = "BidsAssocInputs"

\* C2: the mapping an earlier call returned is unchanged by a later call,
\* and no entry of one returned mapping is an entry of the other or a
\* class-declared default
CallsDoNotContaminate ==
    (Returned1(kept) /\ Returned1(last)) =>
        /\ kept.ret # last.ret
        /\ Keys(dicts[kept.ret]) = DOMAIN kept.snap
        /\ \A k \in DOMAIN kept.snap :
              /\ heap[dicts[kept.ret].val[k]].task = kept.snap[k].task
              /\ heap[dicts[kept.ret].val[k]].repository = kept.snap[k].repository
        /\ Entries(kept.ret) \cap Entries(last.ret) = {}
        /\ Entries(kept.ret) \cap DOMAIN decl0 = {}
        /\ Entries(last.ret) \cap DOMAIN decl0 = {}

CallsDoNotContaminateWitness ==
    /\ Returned1(kept) /\ Returned1(last)
    /\ kept.task = None /\ last.task # None
    /\ kept.repository # last.repository
    /\ Keys(dicts[kept.ret]) # {}
    /\ \E k \in DOMAIN kept.snap : kept.snap[k].task = None

\* C6: for a composite class the number of returned keys is the number of
\* default inputs declared over all its sub-analyses, none overwriting another
CompositeKeysCountDeclared ==
    (cls0.multi /\ Returned1(last)) =>
        Cardinality(Keys(dicts[last.ret])) =
            SumLen([k \in DOMAIN cls0.subs |->
                       IF cls0.subs[k].has
                       THEN cls0.subs[k].default_bids_inputs ELSE <<>>])

\* C7: the returned copy of a default whose task filter is unset has the
\* task argument as its filter: the task when one is given, unset otherwise
UnsetTaskIsBound ==
    Returned1(last) =>
        /\ \A p \in DeclaredAt : p[1] \in Keys(dicts[last.ret])
        /\ \A key \in Keys(dicts[last.ret]) :
              (\A i \in DefaultsAt(key) : decl0[i].task = None) =>
                  heap[dicts[last.ret].val[key]].task = last.task

UnsetTaskIsBoundWitness ==
    /\ Returned1(kept) /\ Returned1(last)
    /\ kept.task = None /\ last.task = "visual"
    /\ \E key \in Keys(dicts[last.ret]) :
          /\ \A i \in DefaultsAt(key) : decl0[i].task = None
          /\ heap[dicts[last.ret].val[key]].task = "visual"
          /\ heap[dicts[kept.ret].val[key]].task = None

\* C8: the returned copy of a default whose task filter is set keeps that
\* filter, whatever the task argument
PresetTaskIsKept ==
    Returned1(last) =>
        \A key \in Keys(dicts[last.ret]) :
            /\ DefaultsAt(key) # {}
            /\ (\A i \in DefaultsAt(key) : decl0[i].task # None) =>
                  heap[dicts[last.ret].val[key]].task \in
                      {decl0[i].task : i \in DefaultsAt(key)}

PresetTaskIsKeptWitness ==
    /\ Returned1(last) /\ last.task = "visual"
    /\ \E key \in Keys(dicts[last.ret]) :
          /\ \A i \in DefaultsAt(key) : decl0[i].task = "rest"
          /\ heap[dicts[last.ret].val[key]].task = "rest"

\* C9: every returned entry refers to the repository argument, whatever the
\* declared default referred to, and the call completes
RepositoryIsBound ==
    last.valid =>
        /\ ~last.raised
        /\ \A key \in Keys(dicts[last.ret]) :
              heap[dicts[last.ret].val[key]].repository = last.repository

RepositoryIsBoundWitness ==
    /\ Returned1(kept) /\ Returned1(last)
    /\ kept.repository = "repo1" /\ last.repository = None
    /\ \E key \in Keys(dicts[last.ret]) :
          /\ \E i \in DefaultsAt(key) : decl0[i].repository = "repo0"
          /\ heap[dicts[last.ret].val[key]].repository = None

\* C10: absent defaults never make get_bids_inputs raise: a simple class
\* without the attribute yields an empty mapping, a sub-analysis without it
\* contributes nothing and the other sub-analyses' defaults are returned
AbsentDefaultsAreEmpty ==
    last.valid =>
        /\ ~last.raised
        /\ (~cls0.multi /\ ~cls0.has) => Keys(dicts[last.ret]) = {}
        /\ Keys(dicts[last.ret]) = {p[1] : p \in DeclaredAt}

AbsentDefaultsAreEmptyWitness ==
    /\ last.valid /\ ~last.raised
    /\ ~cls0.multi /\ ~cls0.has
    /\ Keys(dicts[last.ret]) = {}

AbsentSubDefaultsWitness ==
    /\ last.valid /\ ~last.raised
    /\ cls0.multi
    /\ \E k \in DOMAIN cls0.subs : ~cls0.subs[k].has
    /\ Keys(dicts[last.ret]) # {}

\* the sub-analysis specs under which a returned entry's origin is declared
\* and which give it the key it is found at
SubsOf(key, e) ==
    {k \in DOMAIN cls0.subs :
        /\ cls0.subs[k].has
        /\ e.origin \in Range(cls0.subs[k].default_bids_inputs)
        /\ apply_prefix(cls0.subs[k], decl0[e.origin].name) = key}

\* C11: for a composite class every returned associated input names, as its
\* prefixed primary, its own sub-analysis's prefix of the primary's bare
\* name, and that is the key at which the returned mapping holds the copy of
\* that primary
BackReferenceResolves ==
    (cls0.multi /\ Returned1(last)) =>
        \A key \in Keys(dicts[last.ret]) :
            LET e == heap[dicts[last.ret].val[key]] IN
            e.kind = "BidsAssocInputs" =>
                \E k \in SubsOf(key, e) :
                    /\ e.prefixed_primary_name =
                          apply_prefix(cls0.subs[k], decl0[e.primary].name)
                    /\ e.prefixed_primary_name \in Keys(dicts[last.ret])
                    /\ heap[dicts[last.ret].val[e.prefixed_primary_name]].origin
                          = e.primary

\* what a claim compares of a returned mapping
View(snap) ==
    [k \in DOMAIN snap |->
        [task |-> snap[k].task, repository |-> snap[k].repository,
         prefixed_primary_name |-> snap[k].prefixed_primary_name]]

Orders(n) == {f \in [1..n -> 1..n] : \A i, j \in 1..n : f[i] = f[j] => i = j}

Reordered(c, f) == [c EXCEPT !.subs = [k \in DOMAIN c.subs |-> c.subs[f[k]]]]

ViewOf(r) == View(Snapshot(r.heap, r.d))

\* C12: for a composite class the returned mapping is the same for every
\* order in which subcomp_specs() enumerates the sub-analysis specs
SubAnalysisOrderIrrelevant ==
    (cls0.multi /\ Returned1(last)) =>
        \A f \in Orders(Len(cls0.subs)) :
            ViewOf(get_bids_inputs(decl0, Reordered(cls0, f), last.task,
                                   last.repository))
                = View(last.snap)

\* C17: for a composite class each default of each sub-analysis is returned
\* under its prefixed name, and the entry there is a copy of that very input
EachSubDefaultReturned ==
    (cls0.multi /\ Returned1(last)) =>
        \A p \in DeclaredAt :
            /\ p[1] \in Keys(dicts[last.ret])
            /\ heap[dicts[last.ret].val[p[1]]].origin = p[2]

\* the last declared default of a name
LastNamed(ids, name) ==
    ids[CHOOSE j \in DOMAIN ids :
            /\ decl0[ids[j]].name = name
            /\ \A m \in DOMAIN ids : m > j => decl0[ids[m]].name # name]

\* C18: for a simple class the returned keys are the names of the declared
\* defaults, and under a name two defaults share is a copy of the one
\* declared last
SimpleKeysAreNames ==
    (~cls0.multi /\ Returned1(last)) =>
        /\ Keys(dicts[last.ret]) =
              {decl0[i].name : i \in Range(cls0.default_bids_inputs)}
        /\ \A key \in Keys(dicts[last.ret]) :
              LET e == heap[dicts[last.ret].val[key]] IN
              /\ e.origin = LastNamed(cls0.default_bids_inputs, key)
              /\ dicts[last.ret].val[key] \notin DOMAIN decl0
              /\ e.name = key /\ e.kind = decl0[e.origin].kind
              /\ e.primary = decl0[e.origin].primary

SimpleKeysAreNamesWitness ==
    /\ ~cls0.multi /\ Returned1(last)
    /\ Len(cls0.default_bids_inputs) = 2
    /\ decl0[1].name = decl0[2].name
    /\ decl0[1].task # decl0[2].task
    /\ heap[dicts[last.ret].val[decl0[1].name]].origin = 2

----------------------------------------------------------------------------
(* Properties of the constructor *)

ExplicitNamesOf(c) ==
    IF c.kind = "dict" THEN Keys(c.arg_snap)
    ELSE {c.obj_snap[j].spec_name : j \in DOMAIN c.obj_snap}

\* the caller's entry for a name: the dict's value, or the list's last item
\* of that spec name
ExplicitEntry(c, k) ==
    IF c.kind = "dict" THEN c.arg_snap.val[k]
    ELSE c.items[CHOOSE j \in DOMAIN c.items :
                     /\ c.obj_snap[j].spec_name = k
                     /\ \A m \in DOMAIN c.items :
                           m > j => c.obj_snap[m].spec_name # k]

Untouched(c, id) ==
    \A j \in DOMAIN c.items : c.items[j] = id => heap[id] = c.obj_snap[j]

Constructed(type) == ctor.valid /\ ctor.dataset_type = type

\* C3: on a 'bids' dataset, a name that is both a resolved default and an
\* explicit input is passed to the base constructor as the caller's explicit
\* entry itself: not the default, not a blend
ExplicitTakesPrecedence ==
    Constructed("bids") =>
        /\ ~ctor.raised
        /\ \A k \in Keys(ctor.resolved) \cap ExplicitNamesOf(ctor) :
              /\ dicts[ctor.passed].val[k] = ExplicitEntry(ctor, k)
              /\ dicts[ctor.passed].val[k] # ctor.resolved.val[k]
              /\ Untouched(ctor, dicts[ctor.passed].val[k])

ExplicitTakesPrecedenceWitness ==
    /\ Constructed("bids") /\ ~ctor.raised
    /\ Keys(ctor.resolved) \cap ExplicitNamesOf(ctor) # {}

\* C4: on a 'bids' dataset the keys passed to the base constructor are the
\* union of the resolved default names and the explicit names; a name only
\* among the defaults maps to the resolved copy, a name only among the
\* explicit inputs to the explicit entry
MergedKeysAreUnion ==
    Constructed("bids") =>
        /\ ~ctor.raised
        /\ Keys(dicts[ctor.passed]) =
              Keys(ctor.resolved) \cup ExplicitNamesOf(ctor)
        /\ \A k \in Keys(ctor.resolved) \ ExplicitNamesOf(ctor) :
              /\ dicts[ctor.passed].val[k] = ctor.resolved.val[k]
              /\ ctor.resolved.val[k] \notin DOMAIN decl0
        /\ \A k \in ExplicitNamesOf(ctor) \ Keys(ctor.resolved) :
              dicts[ctor.passed].val[k] = ExplicitEntry(ctor, k)

MergedKeysAreUnionWitness ==
    /\ Constructed("bids") /\ ~ctor.raised
    /\ Keys(ctor.resolved) \ ExplicitNamesOf(ctor) # {}
    /\ ExplicitNamesOf(ctor) \ Keys(ctor.resolved) # {}

\* C5: on a dataset that is not 'bids', get_bids_inputs is not consulted and
\* the base constructor receives exactly the caller's explicit inputs
NonBidsBypass ==
    (ctor.valid /\ ctor.dataset_type # "bids") =>
        /\ ~ctor.raised
        /\ ctor.consulted = 0
        /\ ctor.super_calls = 1
        /\ Keys(dicts[ctor.passed]) = ExplicitNamesOf(ctor)
        /\ \A k \in ExplicitNamesOf(ctor) :
              dicts[ctor.passed].val[k] = ExplicitEntry(ctor, k)
        /\ ctor.kind = "dict" => ctor.passed = ctor.arg

NonBidsBypassWitness ==
    /\ ctor.valid /\ ctor.dataset_type # "bids" /\ ~ctor.raised
    /\ ctor.bids_task # None
    /\ DOMAIN decl0 # {}
    /\ ctor.items # <<>>
    /\ \E i \in DOMAIN decl0 : decl0[i].name \in ExplicitNamesOf(ctor)

\* C13: on a 'bids' dataset the defaults are resolved with bids_task, then
\* merged with the explicit inputs, and only then the base constructor runs:
\* once, on the merged mapping
BaseConstructorAfterMerge ==
    Constructed("bids") =>
        /\ ~ctor.raised
        /\ ctor.events = <<"get_bids_inputs", "update", "super().__init__">>
        /\ ctor.super_calls = 1
        /\ \A k \in Keys(ctor.resolved) :
              LET e == heap[ctor.resolved.val[k]] IN
              /\ e.origin \in DefaultsAt(k)
              /\ e.task = IF decl0[e.origin].task = None THEN ctor.bids_task
                          ELSE decl0[e.origin].task
              /\ e.repository = None
        /\ dicts[ctor.passed].val =
              [k \in Keys(ctor.resolved) \cup ExplicitNamesOf(ctor) |->
                  IF k \in ExplicitNamesOf(ctor) THEN ExplicitEntry(ctor, k)
                  ELSE ctor.resolved.val[k]]

BaseConstructorAfterMergeWitness ==
    /\ Constructed("bids") /\ ~ctor.raised
    /\ ctor.bids_task # None
    /\ ctor.super_calls = 1
    /\ ExplicitNamesOf(ctor) # {}
    /\ \E k \in Keys(ctor.resolved) \ ExplicitNamesOf(ctor) :
          /\ decl0[heap[ctor.resolved.val[k]].origin].task = None
          /\ heap[dicts[ctor.passed].val[k]].task = ctor.bids_task

ExplicitInputsUntouched ==
    ctor.valid =>
        /\ ctor.kind = "dict" => dicts[ctor.arg] = ctor.arg_snap
        /\ \A j \in DOMAIN ctor.items : heap[ctor.items[j]] = ctor.obj_snap[j]

ExplicitInputsUntouchedWitness ==
    /\ Constructed("bids") /\ ~ctor.raised
    /\ ctor.kind = "dict"
    /\ ctor.items # <<>>
    /\ Keys(ctor.resolved) \ Keys(dicts[ctor.arg]) # {}
    /\ Keys(ctor.resolved) \cap Keys(dicts[ctor.arg]) # {}
    /\ ctor.passed # ctor.arg

----------------------------------------------------------------------------
(* Properties of resolve_class *)

\* the modules a class string stands for, in the order the claim gives: the
\* module path itself, then the path under each prefix; without a module
\* part, the prefix modules only
Wanted(c) ==
    IF c.module_part = <<>> THEN c.prefixes
    ELSE <<c.module_part>>
         \o [j \in DOMAIN c.prefixes |-> c.prefixes[j] \o <<".">> \o c.module_part]

Hits(c) == {j \in DOMAIN Wanted(c) : c.env[Wanted(c)[j]] = "has"}

FirstHit(c) == CHOOSE j \in Hits(c) : \A m \in Hits(c) : j <= m

\* C19: resolve_class returns the class of the first module, among the
\* unprefixed module path and then the path under each prefix in order, that
\* imports and has the class name; a module that imports without the name
\* does not end the search; a class string without a module part is looked
\* up in the prefix modules only
FirstCandidateWins ==
    (rc.valid /\ rc.done /\ Hits(rc) # {}) =>
        /\ ~rc.result.raised
        /\ rc.result.cls = ClassIn(Wanted(rc)[FirstHit(rc)], rc.class_name)
        /\ rc.module_part = <<>> =>
              \E j \in DOMAIN rc.prefixes :
                  rc.result.cls.module = rc.prefixes[j]

FirstCandidateWinsWitness ==
    /\ rc.valid /\ rc.done /\ ~rc.result.raised
    /\ rc.module_part # <<>>
    /\ rc.env[rc.module_part] = "empty"
    /\ Len(rc.prefixes) = 2
    /\ rc.env[Wanted(rc)[2]] = "empty"
    /\ rc.result.cls.module = Wanted(rc)[3]

\* a class string without a module part, found in the second prefix module
BareNameWitness ==
    /\ rc.valid /\ rc.done /\ ~rc.result.raised
    /\ rc.module_part = <<>>
    /\ Len(rc.prefixes) = 2
    /\ rc.result.cls.module = rc.prefixes[2]
    /\ rc.prefixes[1] # rc.prefixes[2]

\* C20: resolve_class returns a class or raises BananaUsageError naming the
\* class string; it raises exactly when no candidate module both imports and
\* has the attribute, and it never returns None
ClassOrUsageError ==
    (rc.valid /\ rc.done) =>
        /\ rc.result.raised <=> Hits(rc) = {}
        /\ rc.result.raised =>
              /\ rc.result.exc = "BananaUsageError"
              /\ rc.result.msg = rc.class_str
        /\ ~rc.result.raised => ~rc.result.cls.is_none

ClassOrUsageErrorWitness ==
    /\ rc.valid /\ rc.done /\ rc.result.raised
    /\ rc.result.exc = "BananaUsageError"
    /\ \E j \in DOMAIN Wanted(rc) : rc.env[Wanted(rc)[j]] = "empty"
    /\ \E j \in DOMAIN Wanted(rc) : rc.env[Wanted(rc)[j]] = "missing"

----------------------------------------------------------------------------
(* Properties of calls in progress at once *)

\* C15: of two get_bids_inputs calls with different task and repository,
\* interleaved at any statement, each returns the mapping it returns when
\* it runs alone, made of objects of its own, and the declared defaults are
\* as they were
InterleavedCallsIndependent ==
    thr # NoThreads =>
        /\ cls = cls0
        /\ \A id \in DOMAIN decl0 : heap[id] = decl0[id]
        /\ \A i \in 1..2 :
              thr[i].pc = "done" =>
                 /\ ~thr[i].raised
                 /\ View(Snapshot(heap, thr[i].inputs)) =
                       ViewOf(get_bids_inputs(decl0, cls0, thr[i].task,
                                              thr[i].repository))
                 /\ Range(thr[i].inputs.val) \cap DOMAIN decl0 = {}
                 /\ Range(thr[i].inputs.val)
                       \cap Range(thr[3 - i].inputs.val) = {}

\* both calls are inside the second loop: the first has entered one copy,
\* unbound, into its mapping and holds its second; the second has just bound
\* its task on its own copy of the same declared default
InterleavedCallsIndependentWitness ==
    /\ thr # NoThreads
    /\ thr[1].pc = "task" /\ thr[1].n = 2
    /\ thr[2].pc = "repo" /\ thr[2].n = 1
    /\ thr[2].task # None
    /\ heap[thr[2].cur].task = thr[2].task
    /\ decl0[heap[thr[2].cur].origin].task = None
    /\ \E k \in Keys(thr[1].inputs) :
          /\ heap[thr[1].inputs.val[k]].origin = heap[thr[2].cur].origin
          /\ heap[thr[1].inputs.val[k]].task = None
          /\ heap[thr[1].inputs.val[k]].repository = thr[1].repository

----------------------------------------------------------------------------
(* Properties of the commands *)

Ops(st) == [i \in DOMAIN st.events |-> st.events[i].op]

Has(st, op) == \E i \in DOMAIN st.events : st.events[i].op = op

Ran(kind) == cmd.kind = kind /\ cmd.done

SubCommandTouched(st) == Has(st, "cmd_cls.parse_args") \/ Has(st, "cmd_cls.run")

MainHelpWitness ==
    /\ Ran("main")
    /\ cmd.argv = <<<<"help">>>>
    /\ Ops(cmd.out) = <<"print_help">>

\* the additional arguments of --dataset
DatasetArgs == Tail(cmd.opts.dataset.v)

\* C22: for an 'xnat' dataset more than 3 additional arguments are refused;
\* with SERVER, USER and PASSWORD the repository is constructed with that
\* user and that password, and with SERVER and USER with that user
XnatCredentialsPassed ==
    (Ran("derive") /\ cmd.opts.dataset.given
        /\ cmd.opts.dataset.v[1] = "xnat") =>
        /\ Len(DatasetArgs) > 3 =>
              cmd.out.raised = "BananaUsageError" /\ ~Has(cmd.out, "XnatRepo")
        /\ Len(DatasetArgs) \in {2, 3} =>
              /\ Has(cmd.out, "XnatRepo")
              /\ cmd.out.events[1].a = DatasetArgs[1]
              /\ cmd.out.events[1].b = DatasetArgs[2]
        /\ Len(DatasetArgs) = 3 => cmd.out.events[1].c = DatasetArgs[3]

\* C23: for a 'multi' processor, in derive and in gen-ref-data, more than
\* one additional argument is refused with BananaUsageError; one is the
\* number of processes; with none it is the CPU count
MultiProcessorArgsChecked ==
    ((Ran("derive") \/ Ran("gen-ref-data")) /\ cmd.opts.processor.given
        /\ cmd.opts.processor.v[1] = "multi"
        /\ (Ran("gen-ref-data") => cmd.opts.quiet)) =>
        /\ Len(cmd.opts.processor.v) > 2 =>
              /\ ~Has(cmd.out, "MultiProc")
              /\ Ran("derive") => cmd.out.raised = "BananaUsageError"
        /\ Len(cmd.opts.processor.v) <= 2 =>
              \E i \in DOMAIN cmd.out.events :
                  /\ cmd.out.events[i].op = "MultiProc"
                  /\ cmd.out.events[i].a =
                        IF Len(cmd.opts.processor.v) = 2
                        THEN cmd.opts.processor.v[2] ELSE "cpu_count()"

\* the email a derive command line gives
EmailGiven ==
    IF cmd.opts.email # None THEN cmd.opts.email ELSE cmd.environ.EMAIL

Built == {"SingleProc", "MultiProc", "SlurmProc", "analysis_class", "data"}

\* C24: for a 'slurm' processor in derive the email is --email when given
\* and the EMAIL environment variable otherwise; with neither the command
\* raises BananaUsageError and constructs no processor and no analysis and
\* generates no derivative
SlurmEmailResolved ==
    (Ran("derive") /\ cmd.opts.processor.given
        /\ cmd.opts.processor.v[1] = "slurm") =>
        /\ \A i \in DOMAIN cmd.out.events :
              cmd.out.events[i].op = "SlurmProc" =>
                  cmd.out.events[i].c = EmailGiven
        /\ (EmailGiven # None /\ Len(cmd.opts.processor.v) <= 3) =>
              Has(cmd.out, "SlurmProc")
        /\ EmailGiven = None =>
              /\ cmd.out.raised = "BananaUsageError"
              /\ \A i \in DOMAIN cmd.out.events :
                    cmd.out.events[i].op \notin Built

SlurmEmailResolvedWitness ==
    /\ Ran("derive")
    /\ cmd.opts.processor.given /\ cmd.opts.processor.v[1] = "slurm"
    /\ cmd.opts.email = None /\ cmd.environ.EMAIL # None
    /\ Has(cmd.out, "SlurmProc") /\ Has(cmd.out, "data")
    /\ cmd.out.raised = None

\* neither --email nor EMAIL
SlurmNoEmailWitness ==
    /\ Ran("derive")
    /\ cmd.opts.processor.given /\ cmd.opts.processor.v[1] = "slurm"
    /\ EmailGiven = None
    /\ cmd.out.raised = "BananaUsageError"
    /\ Has(cmd.out, "BidsRepo")

\* C25: in derive with an --output_dataset and a 'bids' input dataset, the
\* analysis is constructed, without error, on the class's default BIDS
\* inputs resolved with --bids_task, each --input replacing the default of
\* its name
BidsInputsReachConstruction ==
    (Ran("derive") /\ cmd.opts.output_dataset.given
        /\ cmd.out.input_dataset.type = "bids"
        /\ Has(cmd.out, "MultiProc")) =>
        /\ cmd.out.raised = None
        /\ Has(cmd.out, "get_bids_inputs")
        /\ Has(cmd.out, "analysis_class")
        /\ Keys(cmd.out.inputs) =
              {heap[i].name : i \in DOMAIN heap} \cup Range(cmd.opts.input)
        /\ \A k \in Range(cmd.opts.input) :
              cmd.out.inputs.val[k] \in {"FilesetFilter", "FieldFilter"}

\* C26: in derive without --dataset the dataset type is 'basic' when an
\* --input was given and 'bids' otherwise; with --dataset it is the first
\* argument of the option
DefaultDatasetType ==
    (Ran("derive") /\ ~cmd.opts.output_dataset.given) =>
        cmd.out.dataset_type =
            IF cmd.opts.dataset.given THEN cmd.opts.dataset.v[1]
            ELSE IF cmd.opts.input # <<>> THEN "basic"
            ELSE "bids"

\* the spec names cached, in the order they were cached
Cached(st) ==
    LET e == SelectSeq(st.events, LAMBDA x : x.op = "cache")
    IN  [i \in DOMAIN e |-> e[i].a]

\* the specs of a derive command line that are bound to a fileset input
InputFilesets == Range(cmd.opts.input) \cap FilesetSpecs

\* C27: in derive every spec named in --cache is cached before any
\* derivative is generated, in the order given; if one of them is not bound
\* to a FilesetFilter input the command raises BananaUsageError and
\* generates no derivative
CacheBeforeData ==
    (Ran("derive") /\ Has(cmd.out, "analysis_class")) =>
        /\ \A i, j \in DOMAIN cmd.out.events :
              (cmd.out.events[i].op = "cache"
                  /\ cmd.out.events[j].op = "data") => i < j
        /\ Has(cmd.out, "data") => Cached(cmd.out) = cmd.opts.cache.v
        /\ (\E n \in DOMAIN cmd.opts.cache.v :
                cmd.opts.cache.v[n] \notin InputFilesets) =>
              /\ cmd.out.raised = "BananaUsageError"
              /\ ~Has(cmd.out, "data")
        /\ (\A n \in DOMAIN cmd.opts.cache.v :
                cmd.opts.cache.v[n] \in InputFilesets) =>
              Has(cmd.out, "data")

CacheBeforeDataWitness ==
    /\ Ran("derive")
    /\ Len(cmd.opts.cache.v) = 2
    /\ cmd.opts.cache.v[1] # cmd.opts.cache.v[2]
    /\ Cached(cmd.out) = cmd.opts.cache.v
    /\ Ops(cmd.out)[Len(cmd.out.events)] = "data"

\* a spec named in --cache that is not an input fileset, after one that is
CacheRefusedWitness ==
    /\ Ran("derive")
    /\ Len(cmd.opts.cache.v) = 2
    /\ Len(Cached(cmd.out)) = 1
    /\ cmd.out.raised = "BananaUsageError"
    /\ ~Has(cmd.out, "data")

KnownDatasetTypes == {"bids", "basic", "xnat"}

Constructors == {"BidsRepo", "Dataset", "XnatRepo"}

\* C28: in derive a dataset type other than 'bids', 'basic' and 'xnat' as
\* first argument of --dataset or of --output_dataset raises
\* BananaUsageError, whatever follows it, and no dataset is constructed
UnknownDatasetTypeRejected ==
    Ran("derive") =>
        /\ (cmd.opts.dataset.given
               /\ cmd.opts.dataset.v[1] \notin KnownDatasetTypes) =>
              /\ cmd.out.raised = "BananaUsageError"
              /\ \A i \in DOMAIN cmd.out.events :
                    cmd.out.events[i].op \notin Constructors
        /\ (cmd.opts.output_dataset.given /\ ~cmd.opts.dataset.given
               /\ cmd.opts.output_dataset.v[1]
                     \in DatasetTypeArgs \ KnownDatasetTypes) =>
              /\ cmd.out.raised = "BananaUsageError"
              /\ Len(SelectSeq(cmd.out.events,
                               LAMBDA x : x.op \in Constructors)) = 1

====
